---- MODULE Spec2Model ----
(***************************************************************************)
(* WiFiLight/config.h: the compile-time configuration of the WiFiLight     *)
(* firmware.  The header is a list of eleven object-like macro             *)
(* definitions.  The model follows the preprocessor through the header,    *)
(* one line per step, building the macro table, and then lets a consumer   *)
(* of the header use the macros the way the header's comments and the      *)
(* specification's external-interface section describe: an MQTT session,   *)
(* an HTTP listener, a WebSocket listener, the page served from            *)
(* data/index.html, an LED strip and a device identifier.                  *)
(***************************************************************************)
EXTENDS Integers, Sequences, FiniteSets, TLC

VARIABLES
    pc,            \* the line of config.h the preprocessor reads next
    phase,         \* "include" while config.h is read, then "run"
    macros,        \* the macro table: macro name -> replacement token
    deviceId,      \* the identifier derived from ID_PREFIX
    strip,         \* the LED strip driven by the consumer
    mqtt,          \* the MQTT session
    subscribed,    \* topics the MQTT session is subscribed to
    published,     \* topics the MQTT session has published to
    httpListener,  \* ports the HTTP listener is bound to (at most one)
    wsListener,    \* ports the WebSocket listener is bound to (at most one)
    page           \* the WebSocket client of the page in data/index.html

vars == <<pc, phase, macros, deviceId, strip, mqtt, subscribed, published,
          httpListener, wsListener, page>>

consumer == <<deviceId, strip, mqtt, subscribed, published,
              httpListener, wsListener, page>>

----------------------------------------------------------------------------
(* Preprocessing tokens: the replacement list of each macro of config.h is *)
(* a single token, a number, a string literal or an identifier.            *)

Num(n) == [kind |-> "number", num |-> n, text |-> ""]
Str(s) == [kind |-> "string", num |-> 0, text |-> s]
Ident(s) == [kind |-> "identifier", num |-> 0, text |-> s]
Undefined == [kind |-> "undefined", num |-> 0, text |-> ""]

(* The lines of a header: a #define directive, or a line that holds only   *)
(* a comment or nothing.                                                   *)
Define(name, body) == [directive |-> "define", name |-> name, body |-> body]
Comment == [directive |-> "none", name |-> "", body |-> Undefined]
Blank == [directive |-> "none", name |-> "", body |-> Undefined]

(* The eleven fields of the configuration record, by the spec's names.     *)
Fields ==
    [id_prefix |-> "ID_PREFIX", num_leds |-> "NUM_LEDS",
     data_pin |-> "DATA_PIN", mqtt_port |-> "MQTT_PORT",
     mqtt_server |-> "MQTT_SERVER", mqtt_user |-> "MQTT_USER",
     mqtt_password |-> "MQTT_PASSWORD",
     mqtt_state_topic |-> "MQTT_STATE_TOPIC",
     mqtt_command_topic |-> "MQTT_COMMAND_TOPIC",
     http_server_port |-> "HTTP_SERVER_PORT",
     websocket_port |-> "WEBSOCKET_PORT"]

MacroNames == {Fields[f] : f \in DOMAIN Fields}

----------------------------------------------------------------------------
(* config.h, line by line.                                                 *)
(* Each #define line is one definition, under the macro's name.  The       *)
(* definitions with a suffix (_Empty, _Zero, ...) are slips an edit of the *)
(* header could make; they are not part of config.h, and the properties    *)
(* further down tell the header apart from each of them.                   *)

ID_PREFIX_Empty == Define("ID_PREFIX", Str(""))
ID_PREFIX == Define("ID_PREFIX", Str("LIGHT-"))

NUM_LEDS_Zero == Define("NUM_LEDS", Num(0))
NUM_LEDS == Define("NUM_LEDS", Num(8))

DATA_PIN == Define("DATA_PIN", Ident("D2"))

MQTT_PORT_Overflow == Define("MQTT_PORT", Num(88883))
MQTT_PORT_OffByOne == Define("MQTT_PORT", Num(1884))
MQTT_PORT == Define("MQTT_PORT", Num(1883))

MQTT_SERVER == Define("MQTT_SERVER", Str("mymqttserver.com"))
MQTT_USER == Define("MQTT_USER", Str("user"))
MQTT_PASSWORD == Define("MQTT_PASSWORD", Str("password"))
MQTT_STATE_TOPIC == Define("MQTT_STATE_TOPIC", Str("light"))

MQTT_COMMAND_TOPIC_SameTopic == Define("MQTT_COMMAND_TOPIC", Str("light"))
MQTT_COMMAND_TOPIC_Redefines == Define("MQTT_STATE_TOPIC", Str("light-set"))
MQTT_COMMAND_TOPIC == Define("MQTT_COMMAND_TOPIC", Str("light-set"))

HTTP_SERVER_PORT_Alternate == Define("HTTP_SERVER_PORT", Num(8080))
HTTP_SERVER_PORT == Define("HTTP_SERVER_PORT", Num(80))

WEBSOCKET_PORT_SameAsHttp == Define("WEBSOCKET_PORT", Num(80))
WEBSOCKET_PORT_Moved == Define("WEBSOCKET_PORT", Num(8081))
WEBSOCKET_PORT == Define("WEBSOCKET_PORT", Num(81))

ConfigH ==
    << Comment,             \*  1  // general
       ID_PREFIX,           \*  2
       Blank,               \*  3
       Comment,             \*  4  // LED
       NUM_LEDS,            \*  5
       DATA_PIN,            \*  6
       Blank,               \*  7
       Comment,             \*  8  // MQTT
       MQTT_PORT,           \*  9
       MQTT_SERVER,         \* 10
       MQTT_USER,           \* 11
       MQTT_PASSWORD,       \* 12
       MQTT_STATE_TOPIC,    \* 13
       MQTT_COMMAND_TOPIC,  \* 14
       Blank,               \* 15
       Comment,             \* 16  // HTTP
       HTTP_SERVER_PORT,    \* 17
       Blank,               \* 18
       Comment,             \* 19  // WebSockets
       WEBSOCKET_PORT >>    \* 20

(* What the comments of config.h say about the values.                     *)
MQTT_PLAIN_PORT == 1883    \* line 9: "usually 1883 or 8883"
MQTT_TLS_PORT == 8883      \* line 9: "8883 (MQTT over TLS/SSL)"
DEFAULT_HTTP_PORT == 80    \* line 17: "default HTTP port is 80"

(* The port number hardcoded in data/index.html; line 20 of config.h says  *)
(* that "this port number", 81, is the one hardcoded there.                *)
INDEX_HTML_PORT == 81

(* The largest 16-bit unsigned integer: the semantic type of a port.       *)
UINT16_MAX == 65535

----------------------------------------------------------------------------
(* The consumer's view of the configuration.                               *)

(* Macro replacement: a use of the name yields its replacement token.      *)
Expand(name) == macros[name]

IsDefined(name) == macros[name] # Undefined

(* The configuration record: each field with its macro's replacement.      *)
Config == [f \in DOMAIN Fields |-> Expand(Fields[f])]

(* A port number passed as a 16-bit unsigned integer.                      *)
ToU16(n) == n % (UINT16_MAX + 1)

(* The chip identifiers a device identifier is derived from.               *)
ChipIds == {"", "a1", "c0ffee"}

NoSession == [connected |-> FALSE, server |-> "", port |-> 0,
              user |-> "", password |-> ""]
NoStrip == [attached |-> FALSE, pin |-> "", leds |-> 0]
NoId == [derived |-> FALSE, id |-> ""]

----------------------------------------------------------------------------
Init ==
    /\ pc = 1
    /\ phase = "include"
    /\ macros = [n \in MacroNames |-> Undefined]
    /\ deviceId = NoId
    /\ strip = NoStrip
    /\ mqtt = NoSession
    /\ subscribed = {}
    /\ published = {}
    /\ httpListener = {}
    /\ wsListener = {}
    /\ page = "idle"

(* A #define line: the name is entered in the macro table with its         *)
(* replacement; a name already there takes the new replacement.            *)
DefineDirective ==
    /\ phase = "include"
    /\ pc <= Len(ConfigH)
    /\ ConfigH[pc].directive = "define"
    /\ macros' = [macros EXCEPT ![ConfigH[pc].name] = ConfigH[pc].body]
    /\ pc' = pc + 1
    /\ UNCHANGED <<phase, consumer>>

(* A comment line or an empty line defines nothing.                        *)
SkipLine ==
    /\ phase = "include"
    /\ pc <= Len(ConfigH)
    /\ ConfigH[pc].directive = "none"
    /\ pc' = pc + 1
    /\ UNCHANGED <<phase, macros, consumer>>

(* The end of config.h: the firmware that included it is built and runs.   *)
EndOfFile ==
    /\ phase = "include"
    /\ pc = Len(ConfigH) + 1
    /\ phase' = "run"
    /\ UNCHANGED <<pc, macros, consumer>>

----------------------------------------------------------------------------
(* The consumer of config.h, as far as the configuration implies it.       *)

(* A device identifier is derived by prefixing ID_PREFIX to the chip's id. *)
DeriveDeviceId(chip) ==
    /\ phase = "run"
    /\ ~deviceId.derived
    /\ deviceId' = [derived |-> TRUE, id |-> Expand("ID_PREFIX").text \o chip]
    /\ UNCHANGED <<pc, phase, macros, strip, mqtt, subscribed, published,
                   httpListener, wsListener, page>>

(* A GPIO output on DATA_PIN drives NUM_LEDS addressable LEDs.             *)
AttachStrip ==
    /\ phase = "run"
    /\ ~strip.attached
    /\ strip' = [attached |-> TRUE, pin |-> Expand("DATA_PIN").text,
                 leds |-> Expand("NUM_LEDS").num]
    /\ UNCHANGED <<pc, phase, macros, deviceId, mqtt, subscribed, published,
                   httpListener, wsListener, page>>

(* An MQTT connection to MQTT_SERVER:MQTT_PORT, authenticated with         *)
(* MQTT_USER and MQTT_PASSWORD.                                            *)
MqttConnect ==
    /\ phase = "run"
    /\ ~mqtt.connected
    /\ mqtt' = [connected |-> TRUE,
                server |-> Expand("MQTT_SERVER").text,
                port |-> ToU16(Expand("MQTT_PORT").num),
                user |-> Expand("MQTT_USER").text,
                password |-> Expand("MQTT_PASSWORD").text]
    /\ UNCHANGED <<pc, phase, macros, deviceId, strip, subscribed, published,
                   httpListener, wsListener, page>>

(* The session subscribes to MQTT_COMMAND_TOPIC for inbound commands.      *)
MqttSubscribe ==
    /\ phase = "run"
    /\ mqtt.connected
    /\ subscribed' = subscribed \cup {Expand("MQTT_COMMAND_TOPIC").text}
    /\ UNCHANGED <<pc, phase, macros, deviceId, strip, mqtt, published,
                   httpListener, wsListener, page>>

(* The session publishes a state report to MQTT_STATE_TOPIC.               *)
MqttPublish ==
    /\ phase = "run"
    /\ mqtt.connected
    /\ published' = published \cup {Expand("MQTT_STATE_TOPIC").text}
    /\ UNCHANGED <<pc, phase, macros, deviceId, strip, mqtt, subscribed,
                   httpListener, wsListener, page>>

(* An HTTP listener bound to HTTP_SERVER_PORT.                             *)
HttpListen ==
    /\ phase = "run"
    /\ httpListener = {}
    /\ httpListener' = {ToU16(Expand("HTTP_SERVER_PORT").num)}
    /\ UNCHANGED <<pc, phase, macros, deviceId, strip, mqtt, subscribed,
                   published, wsListener, page>>

(* A WebSocket listener bound to WEBSOCKET_PORT.                           *)
WebSocketListen ==
    /\ phase = "run"
    /\ wsListener = {}
    /\ wsListener' = {ToU16(Expand("WEBSOCKET_PORT").num)}
    /\ UNCHANGED <<pc, phase, macros, deviceId, strip, mqtt, subscribed,
                   published, httpListener, page>>

(* The page of data/index.html, served by the HTTP listener, opens a       *)
(* WebSocket to the port hardcoded in it: the connection is made when the  *)
(* WebSocket listener is bound there, and refused otherwise.               *)
PageConnect ==
    /\ phase = "run"
    /\ httpListener # {}
    /\ wsListener # {}
    /\ page = "idle"
    /\ page' = IF INDEX_HTML_PORT \in wsListener THEN "open" ELSE "refused"
    /\ UNCHANGED <<pc, phase, macros, deviceId, strip, mqtt, subscribed,
                   published, httpListener, wsListener>>

Next ==
    \/ DefineDirective
    \/ SkipLine
    \/ EndOfFile
    \/ \E chip \in ChipIds : DeriveDeviceId(chip)
    \/ AttachStrip
    \/ MqttConnect
    \/ MqttSubscribe
    \/ MqttPublish
    \/ HttpListen
    \/ WebSocketListen
    \/ PageConnect

Spec == Init /\ [][Next]_vars

----------------------------------------------------------------------------
(* Properties of the configuration.                                        *)

PortMacros == {"MQTT_PORT", "HTTP_SERVER_PORT", "WEBSOCKET_PORT"}

(* C1: the configuration record is immutable.  A macro, once defined, is   *)
(* never redefined or undefined by any later step; when the consumer runs  *)
(* all eleven fields are defined, and every step of the consumer leaves    *)
(* the whole record unchanged.                                             *)
C1_ConfigImmutable ==
    /\ [](phase = "run" => \A n \in MacroNames : IsDefined(n))
    /\ [][\A n \in MacroNames : IsDefined(n) => macros'[n] = macros[n]]_vars
    /\ [][phase = "run" => Config' = Config]_vars

C1_Witness ==
    /\ phase = "run"
    /\ \A n \in MacroNames : IsDefined(n)
    /\ deviceId.derived /\ strip.attached /\ mqtt.connected
    /\ subscribed # {} /\ published # {} /\ page = "open"

(* C2: the topic of outbound state reports and the topic of inbound        *)
(* commands are distinct strings: no topic is both published to and        *)
(* subscribed to.                                                          *)
C2_TopicsDistinct ==
    /\ (IsDefined("MQTT_STATE_TOPIC") /\ IsDefined("MQTT_COMMAND_TOPIC"))
         => Config.mqtt_state_topic.text # Config.mqtt_command_topic.text
    /\ published \cap subscribed = {}

C2_Witness ==
    /\ IsDefined("MQTT_STATE_TOPIC") /\ IsDefined("MQTT_COMMAND_TOPIC")
    /\ published # {} /\ subscribed # {}

(* C3: each of the three ports is a number in 1..65535, so it is not 0 and *)
(* passing it as a 16-bit unsigned integer keeps its value: the session    *)
(* and the listeners use exactly the configured ports.                     *)
C3_PortsInRange ==
    /\ \A p \in PortMacros :
         IsDefined(p) => /\ Expand(p).kind = "number"
                         /\ Expand(p).num \in 1..UINT16_MAX
    /\ mqtt.connected => mqtt.port = Config.mqtt_port.num
    /\ httpListener # {} => httpListener = {Config.http_server_port.num}
    /\ wsListener # {} => wsListener = {Config.websocket_port.num}

C3_Witness ==
    /\ \A p \in PortMacros : IsDefined(p)
    /\ mqtt.connected /\ httpListener # {} /\ wsListener # {}

(* C4: the three ports are pairwise distinct; the HTTP listener and the    *)
(* WebSocket listener never bind the same port.                            *)
C4_PortsDistinct ==
    /\ \A p, q \in PortMacros :
         (p # q /\ IsDefined(p) /\ IsDefined(q))
           => Expand(p).num # Expand(q).num
    /\ httpListener \cap wsListener = {}

C4_Witness ==
    /\ \A p \in PortMacros : IsDefined(p)
    /\ httpListener # {} /\ wsListener # {} /\ page = "idle"

(* C5: num_leds is a positive integer: the strip drives at least one LED.  *)
C5_NumLedsPositive ==
    /\ IsDefined("NUM_LEDS") => /\ Config.num_leds.kind = "number"
                                /\ Config.num_leds.num > 0
    /\ strip.attached => strip.leds > 0

C5_Witness == IsDefined("NUM_LEDS") /\ strip.attached

(* C6: id_prefix is a non-empty string, so a derived device identifier     *)
(* starts with a non-empty prefix, whatever the chip's id.                 *)
C6_IdPrefixNonEmpty ==
    /\ IsDefined("ID_PREFIX") => /\ Config.id_prefix.kind = "string"
                                 /\ Len(Config.id_prefix.text) >= 1
    /\ deviceId.derived =>
         /\ Len(deviceId.id) >= 1
         /\ Len(deviceId.id) >= Len(Config.id_prefix.text)
         /\ SubSeq(deviceId.id, 1, Len(Config.id_prefix.text))
              = Config.id_prefix.text

(* The identifier derived from an empty chip id is the prefix alone.       *)
C6_Witness ==
    /\ IsDefined("ID_PREFIX")
    /\ deviceId.derived
    /\ deviceId.id = Config.id_prefix.text

C8_MqttPortConventional ==
    /\ IsDefined("MQTT_PORT")
         => Config.mqtt_port.num \in {MQTT_PLAIN_PORT, MQTT_TLS_PORT}
    /\ mqtt.connected => mqtt.port \in {MQTT_PLAIN_PORT, MQTT_TLS_PORT}

C8_Witness ==
    /\ IsDefined("MQTT_PORT")
    /\ mqtt.connected
    /\ mqtt.port = MQTT_PLAIN_PORT

(* C9: http_server_port is the default HTTP port 80: the HTTP listener     *)
(* binds port 80.                                                          *)
C9_HttpPortDefault ==
    /\ IsDefined("HTTP_SERVER_PORT")
         => Config.http_server_port.num = DEFAULT_HTTP_PORT
    /\ httpListener # {} => httpListener = {DEFAULT_HTTP_PORT}

C9_Witness == IsDefined("HTTP_SERVER_PORT") /\ httpListener = {DEFAULT_HTTP_PORT}

====
